---- MODULE Spec2Model ----
(***************************************************************************)
(* A model of the regression-and-selection program (src/src/main.rs and    *)
(* src/src/methods.rs): `start` reads the points, replaces zero            *)
(* coordinates by APPROX_ZERO, derives the six approximations in the fixed *)
(* order of `create_approximations`, computes the residual records and the *)
(* standard deviations, and picks the approximation with the least one.    *)
(*                                                                         *)
(* TNumber (f64) is modelled in exact real arithmetic extended with the    *)
(* IEEE special values the code can produce (NaN, +inf, -inf); rounding    *)
(* and overflow of f64 are not modelled.  A value is tracked exactly as    *)
(*      n/d * (ln 2)^l        (n, d, l integers, d > 0)                    *)
(* as long as n and d fit 32-bit integers.  A value that leaves            *)
(* that form (a product that does not fit, the logarithm of a number that  *)
(* is no power of two, ...) is represented by the set of classes it may    *)
(* belong to: "neg", "zero", "pos" (finite), "nan", "ninf", "pinf".  Every *)
(* operation on classes returns every class the real result may have, so   *)
(* an untracked value over-approximates the code and never invents a       *)
(* definite result.                                                        *)
(***************************************************************************)
EXTENDS Integers, Sequences, FiniteSets, TLC

VARIABLES
    pc,                   \* position of `start`
    input,                \* what input_points() returned
    points,               \* `points` of start (zero coordinates replaced)
    all_approximations,   \* the approximations derived so far, in order
    approximated_points,  \* per approximation: the residual records
    standard_deviations,  \* per approximation: its deviation score
    best_approximation,   \* index (from 0) picked by min_by, -1 before
    printed               \* the residual records handed to print_points

vars == <<pc, input, points, all_approximations, approximated_points,
          standard_deviations, best_approximation, printed>>

----------------------------------------------------------------------------
(* Bounds of the model.                                                    *)

\* The longest point sequence read.
MaxPoints == 4

\* The coordinates a point of the input may have.
Coords == {-1, 0, 1, 2, 4}

\* The longest point sequence given to the Power approximation alone.
MaxPowerPoints == 3

\* The coordinates of the points given to the Power approximation alone:
\* positive, and powers of two so that their logarithms are tracked.
PowerCoords == {1, 2, 4, 8}

----------------------------------------------------------------------------
(* TNumber: exact values and classes.                                      *)

Abs(i) == IF i < 0 THEN -i ELSE i

Sgn(i) == IF i < 0 THEN -1 ELSE IF i = 0 THEN 0 ELSE 1

RECURSIVE Gcd(_, _)
Gcd(a, b) == IF b = 0 THEN a ELSE Gcd(b, a % b)

\* a * b fits a 32-bit integer
FitsMul(a, b) == b = 0 \/ Abs(a) <= 2147483647 \div Abs(b)

\* a + b fits a 32-bit integer
FitsAdd(a, b) == Abs(a) <= 2147483647 - Abs(b)

Finite == {"neg", "zero", "pos"}

Classes == Finite \cup {"nan", "ninf", "pinf"}

\* the exact value n/d * (ln 2)^l, normalised
X(n, d, l) ==
    LET g == Gcd(Abs(n), Abs(d))
        s == IF d < 0 THEN -1 ELSE 1
    IN  [k |-> "x", n |-> s * (n \div g), d |-> s * (d \div g),
         l |-> IF n = 0 THEN 0 ELSE l, c |-> {}]

\* the rational n/d
Q(n, d) == X(n, d, 0)

\* a value known only by the classes it may belong to
A(c) == [k |-> "a", n |-> 0, d |-> 1, l |-> 0, c |-> c]

NaN == A({"nan"})

IsExact(a) == a.k = "x"

\* the classes a value may belong to
Cls(a) ==
    IF IsExact(a)
    THEN {IF a.n < 0 THEN "neg" ELSE IF a.n = 0 THEN "zero" ELSE "pos"}
    ELSE a.c

IsNaN(a) == Cls(a) = {"nan"}

MayBeNaN(a) == "nan" \in Cls(a)

NegC(x) ==
    CASE x = "neg" -> "pos"
      [] x = "pos" -> "neg"
      [] x = "ninf" -> "pinf"
      [] x = "pinf" -> "ninf"
      [] OTHER -> x

AddC(x, y) ==
    CASE x = "nan" \/ y = "nan" -> {"nan"}
      [] x = "pinf" -> IF y = "ninf" THEN {"nan"} ELSE {"pinf"}
      [] x = "ninf" -> IF y = "pinf" THEN {"nan"} ELSE {"ninf"}
      [] y \in {"pinf", "ninf"} -> {y}
      [] x = "zero" -> {y}
      [] y = "zero" -> {x}
      [] x = y -> {x}
      [] OTHER -> Finite

MulC(x, y) ==
    CASE x = "nan" \/ y = "nan" -> {"nan"}
      [] x = "zero" -> IF y \in {"pinf", "ninf"} THEN {"nan"} ELSE {"zero"}
      [] y = "zero" -> IF x \in {"pinf", "ninf"} THEN {"nan"} ELSE {"zero"}
      [] x \in {"pinf", "ninf"} \/ y \in {"pinf", "ninf"} ->
            IF (x \in {"neg", "ninf"}) = (y \in {"neg", "ninf"})
            THEN {"pinf"} ELSE {"ninf"}
      [] OTHER -> IF x = y THEN {"pos"} ELSE {"neg"}

\* x / y; the sign of a zero divisor is not tracked
DivC(x, y) ==
    CASE x = "nan" \/ y = "nan" -> {"nan"}
      [] x \in {"pinf", "ninf"} /\ y \in {"pinf", "ninf"} -> {"nan"}
      [] y \in {"pinf", "ninf"} -> {"zero"}
      [] y = "zero" -> IF x = "zero" THEN {"nan"} ELSE {"pinf", "ninf"}
      [] x = "zero" -> {"zero"}
      [] x \in {"pinf", "ninf"} ->
            IF (x = "ninf") = (y = "neg") THEN {"pinf"} ELSE {"ninf"}
      [] OTHER -> IF x = y THEN {"pos"} ELSE {"neg"}

\* f64 negation
Neg(a) ==
    IF IsExact(a) THEN X(-a.n, a.d, a.l) ELSE A({NegC(x) : x \in a.c})

\* f64 addition
Add(a, b) ==
    LET byClass == A(UNION {AddC(x, y) : x \in Cls(a), y \in Cls(b)})
    IN  IF ~(IsExact(a) /\ IsExact(b)) THEN byClass
        ELSE IF a.n = 0 THEN b
        ELSE IF b.n = 0 THEN a
        ELSE IF a.l # b.l THEN A({"neg", "pos"})  \* ln 2 is transcendental
        ELSE LET g  == Gcd(a.d, b.d)
                 ad == a.d \div g
                 bd == b.d \div g
             IN  IF FitsMul(a.n, bd) /\ FitsMul(b.n, ad) /\ FitsMul(ad, b.d)
                 THEN IF FitsAdd(a.n * bd, b.n * ad)
                      THEN X(a.n * bd + b.n * ad, ad * b.d, a.l)
                      ELSE byClass
                 ELSE byClass

\* f64 subtraction
Sub(a, b) == Add(a, Neg(b))

\* f64 multiplication
Mul(a, b) ==
    LET byClass == A(UNION {MulC(x, y) : x \in Cls(a), y \in Cls(b)})
    IN  IF ~(IsExact(a) /\ IsExact(b)) THEN byClass
        ELSE LET g1 == Gcd(Abs(a.n), b.d)
                 g2 == Gcd(Abs(b.n), a.d)
                 an == a.n \div g1
                 bn == b.n \div g2
                 ad == a.d \div g2
                 bd == b.d \div g1
             IN  IF FitsMul(an, bn) /\ FitsMul(ad, bd)
                 THEN X(an * bn, ad * bd, a.l + b.l)
                 ELSE byClass

\* f64 division
Div(a, b) ==
    LET byClass == A(UNION {DivC(x, y) : x \in Cls(a), y \in Cls(b)})
    IN  IF ~(IsExact(a) /\ IsExact(b)) THEN byClass
        ELSE IF b.n = 0 THEN byClass
        ELSE Mul(a, X(Sgn(b.n) * b.d, Abs(b.n), -b.l))

\* f64::powi: e-fold product
RECURSIVE Powi(_, _)
Powi(a, e) == IF e = 0 THEN Q(1, 1) ELSE Mul(Powi(a, e - 1), a)

\* 2^e for e >= 0
RECURSIVE Pow2(_)
Pow2(e) == IF e = 0 THEN 1 ELSE 2 * Pow2(e - 1)

\* the e with 2^e = i, or -1 when i is no power of two
RECURSIVE Log2(_)
Log2(i) ==
    IF i = 1 THEN 0
    ELSE IF i < 1 \/ i % 2 = 1 THEN -1
    ELSE LET r == Log2(i \div 2) IN IF r < 0 THEN -1 ELSE r + 1

LnC(x) ==
    CASE x = "pos" -> Finite
      [] x = "zero" -> {"ninf"}
      [] x = "pinf" -> {"pinf"}
      [] OTHER -> {"nan"}

\* f64::ln
Ln(a) ==
    IF ~IsExact(a) THEN A(UNION {LnC(x) : x \in a.c})
    ELSE IF a.n < 0 THEN NaN
    ELSE IF a.n = 0 THEN A({"ninf"})
    ELSE IF a.l # 0 THEN A(Finite)
    ELSE IF a.d = 1 /\ Log2(a.n) >= 0 THEN X(Log2(a.n), 1, 1)
    ELSE IF a.n = 1 /\ Log2(a.d) >= 0 THEN X(-Log2(a.d), 1, 1)
    ELSE IF a.n > a.d THEN A({"pos"}) ELSE A({"neg"})

ExpC(x) ==
    CASE x \in Finite -> {"pos"}
      [] x = "ninf" -> {"zero"}
      [] x = "pinf" -> {"pinf"}
      [] OTHER -> {"nan"}

\* f64::exp
Exp(a) ==
    IF ~IsExact(a) THEN A(UNION {ExpC(x) : x \in a.c})
    ELSE IF a.n = 0 THEN Q(1, 1)
    ELSE IF a.l = 1 /\ a.d = 1 /\ Abs(a.n) <= 30
         THEN IF a.n > 0 THEN Q(Pow2(a.n), 1) ELSE Q(1, Pow2(-a.n))
    ELSE A({"pos"})

PowfC(x, y) ==
    CASE y = "zero" -> {"pos"}
      [] x = "nan" -> {"nan"}
      [] y = "nan" -> IF x = "pos" THEN {"pos", "nan"} ELSE {"nan"}
      [] x = "pos" -> IF y \in Finite THEN {"pos"} ELSE {"zero", "pos", "pinf"}
      [] x = "neg" -> IF y \in Finite THEN {"neg", "pos", "nan"}
                      ELSE {"zero", "pos", "pinf"}
      [] x = "zero" -> IF y \in {"pos", "pinf"} THEN {"zero"}
                       ELSE {"pinf", "ninf"}
      [] x = "pinf" -> IF y \in {"pos", "pinf"} THEN {"pinf"} ELSE {"zero"}
      [] OTHER -> IF y = "pos" THEN {"pinf", "ninf"}
                  ELSE IF y = "pinf" THEN {"pinf"} ELSE {"zero"}

\* f64::powf: pow(x, 0) = 1 and pow(1, y) = 1 for every x and y, NaN included
Powf(a, b) ==
    LET byClass == A(UNION {PowfC(x, y) : x \in Cls(a), y \in Cls(b)})
    IN  IF IsExact(b) /\ b.n = 0 THEN Q(1, 1)
        ELSE IF IsExact(a) /\ a = Q(1, 1) THEN Q(1, 1)
        ELSE IF IsExact(a) /\ IsExact(b) /\ a.l = 0 /\ b.l = 0 /\ b.d = 1
                /\ a.n # 0 /\ Abs(b.n) <= 6
             THEN IF b.n > 0 THEN Powi(a, b.n)
                  ELSE Div(Q(1, 1), Powi(a, -b.n))
        ELSE byClass

----------------------------------------------------------------------------
(* src/src/main.rs: the points.                                            *)

\* struct Point
Point(x, y) == [x |-> x, y |-> y]

\* const APPROX_ZERO: TNumber = 0.000001
APPROX_ZERO == Q(1, 1000000)

\* x == 0. of start's closure: true of +0 and of -0, false of NaN
IsZero(a) == IsExact(a) /\ a.n = 0

\* a substitution that forgets y: replaces a zero x only
ReplaceZeroXOnly(p) ==
    Point(IF IsZero(p.x) THEN APPROX_ZERO ELSE p.x, p.y)

\* the closure start maps over the points read
ReplaceZero(p) ==
    Point(IF IsZero(p.x) THEN APPROX_ZERO ELSE p.x,
          IF IsZero(p.y) THEN APPROX_ZERO ELSE p.y)

Zero == Q(0, 1)

\* points.len() as f64
LenF(ps) == Q(Len(ps), 1)

----------------------------------------------------------------------------
(* src/src/methods.rs: the six approximations.                             *)

\* sum over the first n points of x^e, added in the order of the points
RECURSIVE PowerSumTo(_, _, _)
PowerSumTo(ps, e, n) ==
    IF n = 0 THEN Zero ELSE Add(PowerSumTo(ps, e, n - 1), Powi(ps[n].x, e))

\* sum over the points of x^e
PowerSum(ps, e) == PowerSumTo(ps, e, Len(ps))

\* sum over the first n points of x^e * y
RECURSIVE CrossSumTo(_, _, _)
CrossSumTo(ps, e, n) ==
    IF n = 0 THEN Zero
    ELSE Add(CrossSumTo(ps, e, n - 1), Mul(Powi(ps[n].x, e), ps[n].y))

\* sum over the points of x^e * y
CrossSum(ps, e) == CrossSumTo(ps, e, Len(ps))

\* Linear::new_minimized
Linear_new_minimized(ps) ==
    LET sx  == PowerSum(ps, 1)
        sxx == PowerSum(ps, 2)
        sy  == CrossSum(ps, 0)
        sxy == CrossSum(ps, 1)
        n   == LenF(ps)
        den == Sub(Mul(sxx, n), Powi(sx, 2))
    IN  [family |-> "Linear",
         a |-> Div(Sub(Mul(sxy, n), Mul(sx, sy)), den),
         b |-> Div(Sub(Mul(sxx, sy), Mul(sx, sxy)), den)]

\* the sums over the points of x^0 .. x^e
PowerSums(ps, e) == [i \in 1..(e + 1) |-> PowerSum(ps, i - 1)]

\* the matrix of new_minimized for a polynomial with k coefficients:
\* matrix[[i, j]] is the sum of x^(i + j)
NormalMatrix(ps, k) ==
    LET build(sums) == [i \in 1..k |-> [j \in 1..k |-> sums[i + j - 1]]]
    IN  build(PowerSums(ps, 2 * k - 2))

\* the vector of new_minimized for a polynomial with k coefficients
NormalVector(ps, k) == [i \in 1..k |-> CrossSum(ps, i - 1)]

\* every entry of the rows is tracked exactly
AllExact(rows) ==
    \A r \in DOMAIN rows : \A c \in DOMAIN rows[r] : IsExact(rows[r][c])

\* Gaussian elimination on the rows of (matrix | vector), from column col on.
\* Result: "singular", "untracked" (a value left the exact form), or the
\* rows in upper triangular form
RECURSIVE Eliminate(_, _)
Eliminate(rows, col) ==
    IF ~AllExact(rows) THEN [state |-> "untracked", rows |-> rows]
    ELSE IF col > Len(rows) THEN [state |-> "ok", rows |-> rows]
    ELSE LET cand == {r \in col..Len(rows) : rows[r][col].n # 0}
         IN  IF cand = {} THEN [state |-> "singular", rows |-> rows]
             ELSE LET p == CHOOSE r \in cand : \A q \in cand : r <= q
                      step(top, piv) ==
                         [r \in 1..Len(rows) |->
                            IF r < col THEN rows[r]
                            ELSE IF r = col THEN top
                            ELSE LET row == IF r = p THEN rows[col] ELSE rows[r]
                                     f   == Div(row[col], piv)
                                 IN  IF row[col].n = 0 THEN row
                                     ELSE [c \in 1..(Len(rows) + 1) |->
                                             Sub(row[c], Mul(f, top[c]))]]
                  IN  Eliminate(step(rows[p], rows[p][col]), col + 1)

\* back substitution: the solution from component i on, given the later ones
RECURSIVE BackSubstitute(_, _, _)
BackSubstitute(rows, i, later) ==
    IF i = 0 THEN later
    ELSE LET k == Len(rows)
             RECURSIVE dot(_, _)
             dot(acc, j) ==
                IF j > k THEN acc
                ELSE dot(Add(acc, Mul(rows[i][j], later[j - i])), j + 1)
             xi == Div(Sub(rows[i][k + 1], dot(Zero, i + 1)), rows[i][i])
         IN  BackSubstitute(rows, i - 1, <<xi>> \o later)

\* a value about which nothing is known
Untracked == A(Classes)

\* the number of distinct x among the points
DistinctX(ps) == Cardinality({ps[i].x : i \in 1..Len(ps)})

\* matrix.solve(&vector): Err for a singular matrix, otherwise Ok(x) with
\* matrix * x = vector.  In exact arithmetic x does not depend on the
\* pivoting of the solver, and the matrix of sums of x^(i + j) is singular
\* exactly when it has more rows than there are distinct x; distinct is
\* that number, which decides the outcome when the elimination is not
\* tracked
Solve(m, v, distinct) ==
    LET k    == Len(m)
        done(e) ==
            IF e.state = "singular" THEN [ok |-> FALSE, x |-> <<>>]
            ELSE LET x == IF e.state = "ok"
                          THEN BackSubstitute(e.rows, k, <<>>) ELSE <<>>
                 IN  IF e.state = "ok" /\ \A j \in 1..k : IsExact(x[j])
                     THEN [ok |-> TRUE, x |-> x]
                     ELSE IF distinct < k THEN [ok |-> FALSE, x |-> <<>>]
                     ELSE [ok |-> TRUE, x |-> [j \in 1..k |-> Untracked]]
    IN  done(Eliminate([r \in 1..k |-> Append(m[r], v[r])], 1))

\* Quadratic::new_minimized, given the coefficients solve returned
Quadratic_new_minimized(coeffs) ==
    [family |-> "Quadratic", a0 |-> coeffs[1], a1 |-> coeffs[2], a2 |-> coeffs[3]]

\* Cubic::new_minimized, given the coefficients solve returned
Cubic_new_minimized(coeffs) ==
    [family |-> "Cubic", a0 |-> coeffs[1], a1 |-> coeffs[2],
     a2 |-> coeffs[3], a3 |-> coeffs[4]]

\* Exponent::new_minimized
Exponent_new_minimized(ps) ==
    LET mapped == [i \in 1..Len(ps) |-> Point(ps[i].x, Ln(ps[i].y))]
        lin    == Linear_new_minimized(mapped)
    IN  [family |-> "Exponent", a0 |-> lin.a, a1 |-> lin.b]

\* Logrithm::new_minimized
Logrithm_new_minimized(ps) ==
    LET points_mapped == [i \in 1..Len(ps) |-> Point(Ln(ps[i].x), ps[i].y)]
        lin           == Linear_new_minimized(points_mapped)
    IN  [family |-> "Logrithm", a0 |-> lin.a, a1 |-> lin.b]

\* Power::new_minimized
Power_new_minimized(ps) ==
    LET points_mapped == [i \in 1..Len(ps) |-> Point(Ln(ps[i].x), Ln(ps[i].y))]
        lin           == Linear_new_minimized(points_mapped)
    IN  [family |-> "Power", a0 |-> lin.a, a1 |-> lin.b]

\* Function::compute of each implementation
Compute(fn, x) ==
    CASE fn.family = "Linear" -> Add(Mul(fn.a, x), fn.b)
      [] fn.family = "Quadratic" ->
            Add(Add(fn.a0, Mul(fn.a1, x)), Mul(fn.a2, Powi(x, 2)))
      [] fn.family = "Cubic" ->
            Add(Add(Add(fn.a0, Mul(fn.a1, x)), Mul(fn.a2, Powi(x, 2))),
                Mul(fn.a3, Powi(x, 3)))
      [] fn.family = "Exponent" -> Exp(Add(Mul(fn.a0, x), fn.a1))
      [] fn.family = "Logrithm" -> Add(Mul(fn.a0, Ln(x)), fn.a1)
      [] fn.family = "Power" -> Mul(Exp(fn.a0), Powf(x, fn.a1))

----------------------------------------------------------------------------
(* src/src/main.rs: residual records, standard deviations, selection.      *)

\* residual records with the error taken the other way round, y - phi
compute_deviation_reversed(ps, function) ==
    [i \in 1..Len(ps) |->
        LET phi == Compute(function, ps[i].x)
        IN  [point |-> ps[i], phi |-> phi, epsilon |-> Sub(ps[i].y, phi)]]

\* compute_deviation: one (point, phi, epsilon) per point, in order
compute_deviation(ps, function) ==
    [i \in 1..Len(ps) |->
        LET phi == Compute(function, ps[i].x)
        IN  [point |-> ps[i], phi |-> phi, epsilon |-> Sub(phi, ps[i].y)]]

\* deviations.iter().map(|(_, _, epsilon)| epsilon.powi(2)).sum::<f64>()
EpsilonSum(deviations) ==
    LET RECURSIVE go(_, _)
        go(acc, i) ==
            IF i > Len(deviations) THEN acc
            ELSE go(Add(acc, Powi(deviations[i].epsilon, 2)), i + 1)
    IN  go(Zero, 1)

\* the radicand of a square root as f64::sqrt sees it: the root of a negative
\* number is NaN
Radicand(v) ==
    IF IsExact(v) THEN IF v.n < 0 THEN NaN ELSE v
    ELSE A({IF x \in {"neg", "ninf"} THEN "nan" ELSE x : x \in v.c})

\* f64::sqrt.  The root of v is kept as [sqrt_of |-> v]: roots are compared
\* through their radicands.  sign is the sign bit of the result when it is
\* a NaN, which the language leaves open
Sqrt(v, sign) == [sqrt_of |-> Radicand(v), sign |-> sign]

\* where f64::total_cmp puts a value of class c: negative NaN first, then
\* the numbers, +inf, and positive NaN last
Rank(c, sign) ==
    CASE c = "nan" -> IF sign = "neg" THEN 0 ELSE 4
      [] c = "ninf" -> 1
      [] c = "pinf" -> 3
      [] OTHER -> 2

\* the order of two finite values of classes ca and cb, as far as known
FiniteCmp(a, ca, b, cb) ==
    IF IsExact(a) /\ IsExact(b) /\ a.l = b.l
       /\ FitsMul(a.n, b.d) /\ FitsMul(b.n, a.d)
    THEN IF a.n * b.d < b.n * a.d THEN {"Less"}
         ELSE IF a.n * b.d = b.n * a.d THEN {"Equal"} ELSE {"Greater"}
    ELSE IF ca = cb THEN IF ca = "zero" THEN {"Equal"}
                         ELSE {"Less", "Equal", "Greater"}
    ELSE IF ca = "neg" \/ (ca = "zero" /\ cb = "pos") THEN {"Less"}
    ELSE {"Greater"}

\* the sign bits a NaN standard deviation may carry
SignBits(a) == IF a.sign = "any" THEN {"pos", "neg"} ELSE {a.sign}

\* a.total_cmp(b) of two standard deviations: the orderings it may return
total_cmp(a, b) ==
    UNION {LET ra == Rank(ca[1], ca[2])
               rb == Rank(cb[1], cb[2])
           IN  IF ra < rb THEN {"Less"}
               ELSE IF ra > rb THEN {"Greater"}
               ELSE IF ra # 2 THEN {"Equal"}
               ELSE FiniteCmp(a.sqrt_of, ca[1], b.sqrt_of, cb[1])
           : ca \in Cls(a.sqrt_of) \X SignBits(a),
             cb \in Cls(b.sqrt_of) \X SignBits(b)}

\* a selection that lets the later of two equal elements win (max_by's rule)
min_by_last(deviations) ==
    LET RECURSIVE go(_, _)
        go(held, j) ==
            IF j > Len(deviations) THEN held
            ELSE go({h \in held :
                        "Less" \in total_cmp(deviations[h + 1], deviations[j])}
                    \cup
                    (IF \E h \in held :
                          total_cmp(deviations[h + 1], deviations[j]) # {"Less"}
                     THEN {j - 1} ELSE {}),
                    j + 1)
    IN  go({0}, 2)

\* Iterator::min_by over the enumerated deviations: the fold keeps the
\* element it holds unless the next one compares less (Ordering::Greater).
\* Returns the indices (from 0) the fold may end with
min_by(deviations) ==
    LET RECURSIVE go(_, _)
        go(held, j) ==
            IF j > Len(deviations) THEN held
            ELSE go({h \in held :
                        total_cmp(deviations[h + 1], deviations[j]) # {"Greater"}}
                    \cup
                    (IF \E h \in held :
                          "Greater" \in total_cmp(deviations[h + 1], deviations[j])
                     THEN {j - 1} ELSE {}),
                    j + 1)
    IN  go({0}, 2)

----------------------------------------------------------------------------
(* The inputs.                                                             *)

\* the (x, y) pairs of the JSON text, as integers
Grid == Coords \X Coords

\* p comes before q: the inputs considered list their points by strictly
\* increasing x (the sums of the derivations do not depend on the order)
PointLeq(p, q) == p[1] < q[1]

RECURSIVE SeqsOfLen(_)
SeqsOfLen(n) ==
    IF n = 0 THEN {<<>>}
    ELSE UNION {{Append(s, p) : p \in {q \in Grid : n = 1 \/ PointLeq(s[n - 1], q)}}
                : s \in SeqsOfLen(n - 1)}

\* what input_points() may return: Err for malformed JSON, or the points
Inputs ==
    {[ok |-> FALSE, points |-> <<>>]}
    \cup {[ok |-> TRUE, points |-> s] : s \in UNION {SeqsOfLen(n) : n \in 0..MaxPoints}}

----------------------------------------------------------------------------
(* start()                                                                 *)

Init ==
    /\ pc = "start"
    /\ input \in Inputs
    /\ points = <<>>
    /\ all_approximations = <<>>
    /\ approximated_points = <<>>
    /\ standard_deviations = <<>>
    /\ best_approximation = -1
    /\ printed = <<>>

\* serde's Deserialize of a Point from a pair of JSON numbers
Deserialize(p) == Point(Q(p[1], 1), Q(p[2], 1))

\* main.rs 34-40: input_points()? and the replacement of zero coordinates
ReadPoints ==
    /\ pc = "start"
    /\ IF input.ok
       THEN /\ points' = [i \in 1..Len(input.points) |->
                              ReplaceZero(Deserialize(input.points[i]))]
            /\ pc' = "fit"
       ELSE /\ pc' = "error"
            /\ UNCHANGED points
    /\ UNCHANGED <<input, all_approximations, approximated_points,
                   standard_deviations, best_approximation, printed>>

\* the next element of the vec! of create_approximations
Push(function) ==
    /\ all_approximations' = Append(all_approximations, function)
    /\ pc' = IF Len(all_approximations) = 5 THEN "deviation" ELSE "fit"
    /\ UNCHANGED <<input, points, approximated_points, standard_deviations,
                   best_approximation, printed>>

\* .unwrap() on the Err of solve
Panic ==
    /\ pc' = "panicked"
    /\ UNCHANGED <<input, points, all_approximations, approximated_points,
                   standard_deviations, best_approximation, printed>>

FitLinear ==
    /\ pc = "fit" /\ Len(all_approximations) = 0
    /\ Push(Linear_new_minimized(points))

FitQuadratic ==
    /\ pc = "fit" /\ Len(all_approximations) = 1
    /\ \E r \in {Solve(NormalMatrix(points, 3), NormalVector(points, 3),
                       DistinctX(points))} :
          IF r.ok THEN Push(Quadratic_new_minimized(r.x)) ELSE Panic

FitCubic ==
    /\ pc = "fit" /\ Len(all_approximations) = 2
    /\ \E r \in {Solve(NormalMatrix(points, 4), NormalVector(points, 4),
                       DistinctX(points))} :
          IF r.ok THEN Push(Cubic_new_minimized(r.x)) ELSE Panic

FitExponent ==
    /\ pc = "fit" /\ Len(all_approximations) = 3
    /\ Push(Exponent_new_minimized(points))

FitLogrithm ==
    /\ pc = "fit" /\ Len(all_approximations) = 4
    /\ Push(Logrithm_new_minimized(points))

FitPower ==
    /\ pc = "fit" /\ Len(all_approximations) = 5
    /\ Push(Power_new_minimized(points))

\* main.rs 46-49
ComputeDeviations ==
    /\ pc = "deviation"
    /\ approximated_points' =
          [m \in 1..Len(all_approximations) |->
              compute_deviation(points, all_approximations[m])]
    /\ pc' = "std"
    /\ UNCHANGED <<input, points, all_approximations, standard_deviations,
                   best_approximation, printed>>

\* the sign bit of the root of v: that of the NaN the machine produces
\* when the root is a NaN, open ("any") when v is not tracked
NaNSign(v, sign) ==
    IF IsNaN(Radicand(v)) THEN sign
    ELSE IF MayBeNaN(Radicand(v)) THEN "any" ELSE "pos"

\* main.rs 53-58: the standard deviation of one approximation
standard_deviation(deviations, ps, sign) ==
    LET mean == Div(EpsilonSum(deviations), LenF(ps))
    IN  Sqrt(mean, NaNSign(mean, sign))

\* main.rs 50-59.  The NaN of an invalid operation carries the sign bit the
\* machine gives it (set on x86-64, clear on others) and keeps it through
\* the operations of the program: one sign per run, either one
StandardDeviations ==
    /\ pc = "std"
    /\ \E sign \in {"pos", "neg"} :
          standard_deviations' =
             [m \in 1..Len(approximated_points) |->
                 standard_deviation(approximated_points[m], points, sign)]
    /\ pc' = "select"
    /\ UNCHANGED <<input, points, all_approximations, approximated_points,
                   best_approximation, printed>>

\* main.rs 61-66
SelectBest ==
    /\ pc = "select"
    /\ \E i \in min_by(standard_deviations) : best_approximation' = i
    /\ pc' = "print"
    /\ UNCHANGED <<input, points, all_approximations, approximated_points,
                   standard_deviations, printed>>

\* main.rs 68-74: the output; plot panics when there is no point
Report ==
    /\ pc = "print"
    /\ printed' = approximated_points[best_approximation + 1]
    /\ pc' = IF Len(points) = 0 THEN "panicked" ELSE "done"
    /\ UNCHANGED <<input, points, all_approximations, approximated_points,
                   standard_deviations, best_approximation>>

Next ==
    \/ ReadPoints
    \/ FitLinear
    \/ FitQuadratic
    \/ FitCubic
    \/ FitExponent
    \/ FitLogrithm
    \/ FitPower
    \/ ComputeDeviations
    \/ StandardDeviations
    \/ SelectBest
    \/ Report

Spec == Init /\ [][Next]_vars

----------------------------------------------------------------------------
(* Power::new_minimized and Power::compute on their own, on positive       *)
(* points.                                                                 *)

RECURSIVE PowerSeqsOfLen(_)
PowerSeqsOfLen(n) ==
    IF n = 0 THEN {<<>>}
    ELSE UNION {{Append(s, p) : p \in {q \in PowerCoords \X PowerCoords :
                                          n = 1 \/ PointLeq(s[n - 1], q)}}
                : s \in PowerSeqsOfLen(n - 1)}

PowerInputs ==
    {[ok |-> TRUE, points |-> s] :
        s \in UNION {PowerSeqsOfLen(n) : n \in 1..MaxPowerPoints}}

InitPower ==
    /\ pc = "power"
    /\ input \in PowerInputs
    /\ points = [i \in 1..Len(input.points) |->
                    ReplaceZero(Deserialize(input.points[i]))]
    /\ all_approximations = <<>>
    /\ approximated_points = <<>>
    /\ standard_deviations = <<>>
    /\ best_approximation = -1
    /\ printed = <<>>

\* Power::new_minimized(&points)
PowerFit ==
    /\ pc = "power"
    /\ all_approximations' = <<Power_new_minimized(points)>>
    /\ pc' = "power_fitted"
    /\ UNCHANGED <<input, points, approximated_points, standard_deviations,
                   best_approximation, printed>>

\* compute_deviation(&points, &power)
PowerEvaluate ==
    /\ pc = "power_fitted"
    /\ approximated_points' = <<compute_deviation(points, all_approximations[1])>>
    /\ pc' = "power_evaluated"
    /\ UNCHANGED <<input, points, all_approximations, standard_deviations,
                   best_approximation, printed>>

NextPower ==
    \/ PowerFit
    \/ PowerEvaluate

SpecPower == InitPower /\ [][NextPower]_vars

----------------------------------------------------------------------------
(* Properties.                                                             *)

\* the families derived so far
Derived == {all_approximations[m].family : m \in 1..Len(all_approximations)}

\* a coordinate of the substituted point set is a positive number
Positive(a) == IsExact(a) /\ a.n > 0

\* start has read the points and gone on
Running == pc \notin {"start", "error"}

\* C4: a point set with zero elements is rejected before any family is
\* derived: no approximation, residual record or score comes from it.
C4_EmptyInputRejected ==
    (input.ok /\ Len(input.points) = 0)
        => /\ all_approximations = <<>>
           /\ approximated_points = <<>>
           /\ standard_deviations = <<>>

\* C5: no deviation score that is NaN or infinite reaches the comparison of
\* the selector.
C5_NoNaNAtSelector ==
    pc = "select"
        => \A m \in 1..Len(standard_deviations) :
              /\ ~IsNaN(standard_deviations[m].sqrt_of)
              /\ Cls(standard_deviations[m].sqrt_of) # {"pinf"}

\* C6: the failure of one derivation does not block the others: a run that
\* read at least one point does not end before the families that need no
\* linear system are derived.
C6_FailureIsolated ==
    (pc = "panicked" /\ Len(points) > 0)
        => {"Linear", "Exponent", "Logrithm", "Power"} \subseteq Derived

\* C7: Exponent is returned only when every y is positive, Logrithm only
\* when every x is positive, Power only when every x and y is positive.
C7_DomainErrors ==
    /\ "Exponent" \in Derived => \A i \in 1..Len(points) : Positive(points[i].y)
    /\ "Logrithm" \in Derived => \A i \in 1..Len(points) : Positive(points[i].x)
    /\ "Power" \in Derived =>
          \A i \in 1..Len(points) : Positive(points[i].x) /\ Positive(points[i].y)

\* C8: from a single point none of Linear, Quadratic, Cubic is returned.
C8_SinglePointSingular ==
    Len(points) = 1 => Derived \cap {"Linear", "Quadratic", "Cubic"} = {}

\* the fixed order of create_approximations
FamilyOrder == <<"Linear", "Quadratic", "Cubic", "Exponent", "Logrithm", "Power">>

\* every two standard deviations compare in a known way
Comparable ==
    \A i, j \in 1..Len(standard_deviations) :
        Cardinality(total_cmp(standard_deviations[i], standard_deviations[j])) = 1

Substituted(c) ==
    IF c = 0 THEN [k |-> "x", n |-> 1, d |-> 1000000, l |-> 0, c |-> {}]
    ELSE [k |-> "x", n |-> c, d |-> 1, l |-> 0, c |-> {}]

\* the point set after the substitution
Canonical ==
    [i \in 1..Len(input.points) |->
        [x |-> Substituted(input.points[i][1]),
         y |-> Substituted(input.points[i][2])]]

\* the approximation of family m as derived from the point set ps, for the
\* families with a closed form
DerivedFrom(m, ps) ==
    CASE m = 1 -> Linear_new_minimized(ps)
      [] m = 4 -> Exponent_new_minimized(ps)
      [] m = 5 -> Logrithm_new_minimized(ps)
      [] m = 6 -> Power_new_minimized(ps)

\* C2: once read, the point set is the input with every zero coordinate
\* replaced by 1e-6 and every other coordinate as read; the derivations
\* (compared here for the families with a closed form), the residual
\* records and the records printed all carry these points.
C2_ZeroSubstitutedOnce ==
    Running =>
        /\ points = Canonical
        /\ pc = "deviation" =>
              \A m \in {1, 4, 5, 6} :
                  all_approximations[m] = DerivedFrom(m, Canonical)
        /\ \A m \in 1..Len(approximated_points) :
              /\ Len(approximated_points[m]) = Len(Canonical)
              /\ \A i \in 1..Len(Canonical) :
                    approximated_points[m][i].point = Canonical[i]
        /\ pc = "done" =>
              /\ Len(printed) = Len(Canonical)
              /\ \A i \in 1..Len(Canonical) : printed[i].point = Canonical[i]

\* C2 happens: a run is complete whose input had a zero x and a zero y, and
\* the records printed carry 1e-6 in their place.
C2_ZeroReplacedInOutput ==
    /\ pc = "done"
    /\ \E i \in 1..Len(printed) :
          input.points[i][1] = 0 /\ printed[i].point.x = APPROX_ZERO
    /\ \E i \in 1..Len(printed) :
          input.points[i][2] = 0 /\ printed[i].point.y = APPROX_ZERO
    /\ \E i \in 1..Len(printed) :
          input.points[i][1] # 0 /\ printed[i].point.x = Q(input.points[i][1], 1)

\* the input points lie on one line, none of their coordinates is zero, and
\* their x, at least four, are distinct
OnLine(ps) ==
    /\ Len(ps) >= 4
    /\ \A i \in 1..Len(ps) : ps[i][1] # 0 /\ ps[i][2] # 0
    /\ \A i, j \in 1..Len(ps) : i # j => ps[i][1] # ps[j][1]
    /\ \A i \in 1..Len(ps) :
          (ps[i][2] - ps[1][2]) * (ps[2][1] - ps[1][1])
             = (ps[2][2] - ps[1][2]) * (ps[i][1] - ps[1][1])

\* C3: for points on a line y = a*x + b with four distinct x, Linear has
\* exactly that a and b, its standard deviation is 0, and Linear is the
\* approximation selected.
C3_LinearRoundTrip ==
    (input.ok /\ OnLine(input.points)) =>
        LET p  == input.points
            dx == p[2][1] - p[1][1]
            dy == p[2][2] - p[1][2]
        IN  /\ "Linear" \in Derived =>
                  /\ all_approximations[1].a = Q(dy, dx)
                  /\ all_approximations[1].b = Q(p[1][2] * dx - dy * p[1][1], dx)
            /\ Len(standard_deviations) > 0 =>
                  standard_deviations[1].sqrt_of = Zero
            /\ pc \in {"print", "done"} => best_approximation = 0

\* the sum of the squares of the errors of the records, from record i on
RECURSIVE SquaresFrom(_, _)
SquaresFrom(records, i) ==
    IF i > Len(records) THEN Zero
    ELSE Add(SquaresFrom(records, i + 1),
             Mul(records[Len(records) + 1 - i].epsilon,
                 records[Len(records) + 1 - i].epsilon))

\* C9: every approximation has one residual record per point, in the order
\* of the points, holding the point, phi = the approximation's value at x,
\* and epsilon = phi - y; its standard deviation is the root of the sum of
\* epsilon^2 over the number of points; the points are as they were read.
\* (The records are compared in the state that follows their computation,
\* the standard deviations in the state that follows theirs.)
C9_ResidualsAndScore ==
    /\ \A m \in 1..Len(approximated_points) :
          Len(approximated_points[m]) = Len(points)
    /\ Len(approximated_points) \in {0, 6}
    /\ Len(standard_deviations) \in {0, 6}
    /\ pc = "std" =>
          \A m \in 1..6 : \A i \in 1..Len(points) :
              LET r == approximated_points[m][i]
              IN  /\ r.point = points[i]
                  /\ r.phi = Compute(all_approximations[m], points[i].x)
                  /\ r.epsilon = Add(r.phi, Neg(points[i].y))
    /\ pc = "select" =>
          \A m \in 1..6 :
              standard_deviations[m].sqrt_of
                 = Radicand(Div(SquaresFrom(approximated_points[m], 1),
                                Q(Len(points), 1)))
    /\ Len(approximated_points) > 0 => points = Canonical

\* C9 happens: a complete run has an approximation with a negative and a
\* positive error, both numbers, and a standard deviation that is the root
\* of a positive number.
C9_SignedResiduals ==
    /\ pc = "select"
    /\ \E m \in 1..6 :
          /\ \E i \in 1..Len(points) :
                LET e == approximated_points[m][i].epsilon
                IN  IsExact(e) /\ e.n < 0
          /\ \E i \in 1..Len(points) :
                LET e == approximated_points[m][i].epsilon
                IN  IsExact(e) /\ e.n > 0
          /\ IsExact(standard_deviations[m].sqrt_of)
          /\ standard_deviations[m].sqrt_of.n > 0

\* the input points, at least two, lie on one curve y = c * x^k: their
\* logarithms lie on one line
OnPowerCurve(ps) ==
    /\ Len(ps) >= 2
    /\ \A i \in 1..Len(ps) :
          (Log2(ps[i][2]) - Log2(ps[1][2])) * (Log2(ps[2][1]) - Log2(ps[1][1]))
             = (Log2(ps[2][2]) - Log2(ps[1][2])) * (Log2(ps[i][1]) - Log2(ps[1][1]))

\* C10: a0 of Power is the intercept and a1 the slope of the Linear
\* derivation on (ln x, ln y), and points on a curve y = c * x^k (x, y > 0)
\* have error zero under the Power approximation derived from them.
C10_PowerRecoversCurve ==
    (pc = "power_evaluated" /\ OnPowerCurve(input.points)) =>
        LET lin == Linear_new_minimized(
                      [i \in 1..Len(points) |->
                          Point(Ln(points[i].x), Ln(points[i].y))])
        IN  /\ (IsExact(lin.a) /\ IsExact(lin.b)) =>
                  /\ all_approximations[1].a0 = lin.b
                  /\ all_approximations[1].a1 = lin.a
            /\ \A i \in 1..Len(points) :
                  "zero" \in Cls(approximated_points[1][i].epsilon)

====
